---- MODULE Spec2Model ----
(***************************************************************************)
(* State-machine model of the three batch scripts of fisschl/deno-scripts: *)
(*   archive   - scripts/compress_and_delete.ts                            *)
(*   transcode - video_to_webm_converter.ts (unnamed/part_000)             *)
(*   rename    - scripts/file_copy_and_rename.ts                           *)
(* A file name is a sequence of tokens ("." is a token of its own), a path *)
(* is a sequence of names relative to the working directory, and the       *)
(* filesystem is a function from the existing paths to their nodes.        *)
(***************************************************************************)
EXTENDS Integers, Sequences, FiniteSets, TLC

VARIABLES
  script,         \* which script this process runs
  moveAfterCopy,  \* rename: MOVE_AFTER_COPY
  targetPath,     \* rename: the configured TARGET_PATH
  env,            \* the machine: which tool candidates run, USERPROFILE
  fs,             \* the filesystem: path -> [kind, data]
  pc,             \* position of the single thread of control
  run,            \* number of the current run (process start), from 1
  cands,          \* tool resolution: the candidates still to probe
  tool,           \* the resolved tool binding, "none" before resolution
  todo,           \* archive: DirEntries of the root not yet read
  items,          \* archive: the collected items
  stack,          \* transcode / rename: the readDir iterators of the recursion
  cur,            \* the item being processed: [path, isDirectory]
  result,         \* outcome of the last transform call of the current item
  exitCode,       \* process exit status, -1 while running
  cause,          \* why the run ended: "none", "ToolNotFound", ...
  log,            \* per-run history of the items (for the properties)
  hist            \* history across runs (for the properties)

vars == <<script, moveAfterCopy, targetPath, env, fs, pc, run, cands, tool, todo, items, stack,
          cur, result, exitCode, cause, log, hist>>

\* ------------------------------------------------------------------ bounds
MaxRuns == 2
MaxSeeds == 3

\* ------------------------------------------------------------ names, paths
Dot == "."

Lower(tok) ==
  CASE tok = "MOV" -> "mov"
    [] tok = "MP4" -> "mp4"
    [] OTHER -> tok

LowerSeq(s) == [i \in 1..Len(s) |-> Lower(s[i])]

\* String.prototype.startsWith(".")
StartsWithDot(name) == Len(name) >= 1 /\ name[1] = Dot

\* String.prototype.endsWith(".ts")
EndsWithTs(name) ==
  Len(name) >= 2 /\ name[Len(name) - 1] = Dot /\ name[Len(name)] = "ts"

\* @std/path extname: from the last "." of the name to its end; empty when
\* there is no "." or the only "." is the first character
DotPositions(name) == {i \in 1..Len(name) : name[i] = Dot}

LastDot(name) == CHOOSE i \in DotPositions(name) : \A j \in DotPositions(name) : j <= i

ExtName(name) ==
  IF DotPositions(name) = {} \/ LastDot(name) = 1
    THEN <<>>
    ELSE SubSeq(name, LastDot(name), Len(name))

\* getFileExtension: ext ? ext.slice(1).toLowerCase() : null.  null and ""
\* are both falsy at every use, and both are the empty sequence here.
GetFileExtension(path) ==
  LET ext == ExtName(path[Len(path)])
  IN IF ext = <<>> THEN <<>> ELSE LowerSeq(Tail(ext))

\* @std/path join(dir, name)
Join(dir, name) == Append(dir, name)

Root == <<>>

IsPrefix(p, q) == Len(p) <= Len(q) /\ SubSeq(q, 1, Len(p)) = p

Exists(f, p) == p \in DOMAIN f

\* Deno.readDir(dir): one DirEntry per direct child
ReadDir(f, dir) ==
  {[name |-> p[Len(p)], isDirectory |-> f[p].kind = "dir", isFile |-> f[p].kind = "file"] :
     p \in {q \in DOMAIN f : Len(q) = Len(dir) + 1 /\ IsPrefix(dir, q)}}

\* Deno.remove(path, {recursive}): the node and, for a directory, its subtree
Remove(f, p, recursive) ==
  LET gone == IF recursive THEN {q \in DOMAIN f : IsPrefix(p, q)} ELSE {p}
  IN [q \in (DOMAIN f) \ gone |-> f[q]]

WriteFile(f, p, data) ==
  [q \in (DOMAIN f) \cup {p} |-> IF q = p THEN [kind |-> "file", data |-> data] ELSE f[q]]

Size(f, p) == Len(f[p].data)

\* ------------------------------------------------------- file contents
Bytes1 == <<1>>
Bytes2 == <<2>>
Empty == <<>>
ArchiveBytes == <<7, 122>>
WebmBytes == <<26, 69>>
PartialBytes == <<0>>

\* What an external tool (7z, ffmpeg) can have done when its process ends:
\* its exit status, and what it left at the output path.
Outcome(success, out) == [success |-> success, out |-> out]

\* ffmpeg -i <in> ... -y <out>: a failure may leave nothing or a partial
\* file; exit status 0 may come with the output, an empty output or none
FFmpegOutcomes ==
  {Outcome(FALSE, "none"), Outcome(FALSE, "partial"),
   Outcome(TRUE, "full"), Outcome(TRUE, "empty"), Outcome(TRUE, "none")}

\* 7z a <out> <in>: exit status non-zero with nothing or a partial archive
\* left, exit status 0 with the archive, exit status 0 with nothing left
ArchiverOutcomes ==
  {Outcome(FALSE, "none"), Outcome(FALSE, "partial"),
   Outcome(TRUE, "full"), Outcome(TRUE, "none")}

AfterTool(f, outPath, o, fullData) ==
  CASE o.out = "none" -> f
    [] o.out = "empty" -> WriteFile(f, outPath, Empty)
    [] o.out = "partial" -> WriteFile(f, outPath, PartialBytes)
    [] OTHER -> WriteFile(f, outPath, fullData)

\* ----------------------------------------------------- initial trees
Node(path, kind, data) == [path |-> path, kind |-> kind, data |-> data]

\* Each seed is a group of nodes; an initial tree holds up to MaxSeeds seeds.
ArchiveSeeds ==
  { {Node(<< <<"docs">>, <<".", "h">> >>, "file", Bytes1)},
    {Node(<< <<"docs", ".", "7z">> >>, "file", ArchiveBytes)},
    {Node(<< <<"a", ".", "ts">> >>, "file", Bytes1)},
    {Node(<< <<".", "git">>, <<"c">> >>, "file", Bytes2)} }

TranscodeSeeds ==
  { {Node(<< <<"a", ".", "mov">> >>, "file", Bytes1)},
    {Node(<< <<"a", ".", "avi">> >>, "file", Bytes2)},
    {Node(<< <<"sub">>, <<"b", ".", "MOV">> >>, "file", Bytes1),
     Node(<< <<"sub">>, <<"n", ".", "txt">> >>, "file", Bytes1),
     Node(<< <<"sub">>, <<"noext">> >>, "file", Bytes1)},
    {Node(<< <<".", "hid">>, <<"c", ".", "mov">> >>, "file", Bytes1),
     Node(<< <<".", "h", ".", "mov">> >>, "file", Bytes2),
     Node(<< <<"clip", ".", "webm">> >>, "file", WebmBytes)} }

RenameSeeds ==
  { {Node(<< <<"source">>, <<"x", ".", "mp4">> >>, "file", Bytes1)},
    {Node(<< <<"source">>, <<"sub">>, <<"y", ".", "MP4">> >>, "file", Bytes1)},
    {Node(<< <<"source">>, <<"y", ".", "webm">> >>, "file", Bytes1)},
    {Node(<< <<"source">>, <<"e", ".", "m4v">> >>, "file", Empty),
     Node(<< <<"source">>, <<".", "h", ".", "mp4">> >>, "file", Bytes2),
     Node(<< <<"source">>, <<"n", ".", "txt">> >>, "file", Bytes2),
     Node(<< <<"source">>, <<"noext">> >>, "file", Bytes2)} }

SeedsOf(s) ==
  CASE s = "archive" -> ArchiveSeeds
    [] s = "transcode" -> TranscodeSeeds
    [] OTHER -> RenameSeeds

\* the filesystem holding the nodes N, their ancestor directories and the
\* working directory
MkFs(N) ==
  LET files == {n.path : n \in N}
      all == {Root} \cup UNION {{SubSeq(p, 1, k) : k \in 0..Len(p)} : p \in files}
  IN [p \in all |->
        IF \E n \in N : n.path = p
          THEN LET n == CHOOSE t \in N : t.path = p IN [kind |-> n.kind, data |-> n.data]
          ELSE [kind |-> "dir", data |-> Empty]]

InitialTrees(s) ==
  {MkFs(UNION S) : S \in {T \in SUBSET SeedsOf(s) : Cardinality(T) <= MaxSeeds}}

\* ------------------------------------------------------- the machines
\* works: the candidates whose probe exits 0; throws: those whose spawn
\* throws (no such file); the others exit non-zero
Machine(works, throws, userProfile) ==
  [works |-> works, throws |-> throws, userProfile |-> userProfile]

\* the rename script runs no external tool
NoMachine == Machine({}, {}, FALSE)

Envs ==
  { Machine({}, {"7z", "ffmpeg"}, TRUE),
    Machine({"7z", "ffmpeg", "C:/7-Zip/7z.exe"}, {}, FALSE),
    Machine({"C:/7-Zip/7z.exe", "UP/7-Zip/7z.exe",
             "PF86/ffmpeg/bin/ffmpeg.exe", "UP/ffmpeg/bin/ffmpeg.exe"},
            {"7z", "ffmpeg", "PF/7-Zip/7z.exe"}, TRUE) }

\* ----------------------------------------------------------- histories
EmptyLog ==
  [invoked |-> {}, succeeded |-> {}, verified |-> {}, failed |-> {},
   skipped |-> {}, deleted |-> {}]

NoItem == [path |-> <<>>, isDirectory |-> FALSE]

Scripts == {"archive", "transcode", "rename"}

\* the configuration of the rename script
SOURCE_PATH == << <<"source">> >>

TARGET_PATH == << <<"target">> >>

Init ==
  /\ script \in Scripts
  /\ moveAfterCopy \in (IF script = "rename" THEN BOOLEAN ELSE {FALSE})
  /\ targetPath = TARGET_PATH
  /\ env \in (IF script = "rename" THEN {NoMachine} ELSE Envs)
  /\ fs \in InitialTrees(script)
  /\ pc = "start"
  /\ run = 1
  /\ cands = <<>>
  /\ tool = "none"
  /\ todo = {}
  /\ items = <<>>
  /\ stack = <<>>
  /\ cur = NoItem
  /\ result = "none"
  /\ exitCode = -1
  /\ cause = "none"
  /\ log = EmptyLog
  /\ hist = [fsStart |-> fs, prevDone |-> FALSE, deleted |-> {}]

\* ------------------------------------------------------ run bookkeeping
Logged(field, path) == [log EXCEPT ![field] = @ \cup {path}]

\* the process ends: exit status 0 after the last statement, 1 after an
\* uncaught exception
Exit(code, why) ==
  /\ pc' = "exit"
  /\ exitCode' = code
  /\ cause' = why
  /\ cur' = NoItem
  /\ result' = "none"
  /\ cands' = <<>>
  /\ todo' = {}
  /\ items' = <<>>
  /\ stack' = <<>>

\* ------------------------------------------------------ tool resolution
\* new Deno.Command(path, ...).output() on this machine
Probe(path) ==
  IF path \in env.throws THEN "throw"
  ELSE IF path \in env.works THEN "ok" ELSE "nonzero"

\* a probe that takes any spawned process for a working tool
Test7zPathNoStatus(path) == Probe(path) # "throw"

\* test7zPath: status.success, and false when spawning throws
Test7zPath(path) == Probe(path) = "ok"

\* get7zPaths: the well-known paths, then the user-profile paths when
\* USERPROFILE is set
Get7zPaths ==
  <<"PF/7-Zip/7z.exe", "PF86/7-Zip/7z.exe", "C:/7-Zip/7z.exe">>
    \o (IF env.userProfile
          THEN <<"UP/AppData/Local/Programs/7-Zip/7z.exe", "UP/7-Zip/7z.exe">>
          ELSE <<>>)

\* check7zAvailability, first probe: the bare command on the PATH
Check7zBare ==
  /\ pc = "start"
  /\ script = "archive"
  /\ IF Test7zPath("7z")
       THEN /\ tool' = "7z"
            /\ cands' = <<>>
            /\ pc' = "enum"
       ELSE /\ tool' = tool
            /\ cands' = Get7zPaths
            /\ pc' = "probe"
  /\ UNCHANGED <<script, moveAfterCopy, targetPath, env, fs, run, todo, items, stack, cur, result,
                 exitCode, cause, log, hist>>

\* check7zAvailability, the loop over possiblePaths
Check7zNext ==
  /\ pc = "probe"
  /\ script = "archive"
  /\ cands # <<>>
  /\ IF Test7zPath(Head(cands))
       THEN /\ tool' = Head(cands)
            /\ cands' = <<>>
            /\ pc' = "enum"
       ELSE /\ tool' = tool
            /\ cands' = Tail(cands)
            /\ pc' = "probe"
  /\ UNCHANGED <<script, moveAfterCopy, targetPath, env, fs, run, todo, items, stack, cur, result,
                 exitCode, cause, log, hist>>

\* a resolution that returns without a tool instead of throwing
Check7zFailContinue ==
  /\ pc = "probe"
  /\ script = "archive"
  /\ cands = <<>>
  /\ pc' = "enum"
  /\ UNCHANGED <<script, moveAfterCopy, targetPath, env, fs, run, cands, tool, todo, items, stack,
                 cur, result, exitCode, cause, log, hist>>

\* check7zAvailability, throw new Error("7z未安装"): uncaught at top level
Check7zFail ==
  /\ pc = "probe"
  /\ script = "archive"
  /\ cands = <<>>
  /\ Exit(1, "ToolNotFound")
  /\ UNCHANGED <<script, moveAfterCopy, targetPath, env, fs, run, tool, log, hist>>

\* ------------------------------------------------------------- archive
ArchiveSuffix == <<Dot, "7z">>

\* a filter that forgets the hidden entries
ArchiveExcludedTsOnly(name) == EndsWithTs(name)

\* the filter of the enumeration loop
ArchiveExcluded(name) == EndsWithTs(name) \/ StartsWithDot(name)

ArchiveItemPath(name) == Join(Root, name)

ArchiveOutputPath(name) == Join(Root, name \o ArchiveSuffix)

\* Deno.readDir(currentDir) opens; a failure is uncaught
ArchiveReadDir ==
  /\ pc = "enum"
  /\ todo' = ReadDir(fs, Root)
  /\ items' = <<>>
  /\ pc' = "collect"
  /\ UNCHANGED <<script, moveAfterCopy, targetPath, env, fs, run, cands, tool, stack, cur, result,
                 exitCode, cause, log, hist>>

ArchiveReadDirError ==
  /\ pc = "enum"
  /\ Exit(1, "DirectoryReadError")
  /\ UNCHANGED <<script, moveAfterCopy, targetPath, env, fs, run, tool, log, hist>>

\* one iteration of the enumeration loop, in the order readDir yields
ArchiveCollect ==
  /\ pc = "collect"
  /\ \E e \in todo :
       /\ todo' = todo \ {e}
       /\ items' = IF ArchiveExcluded(e.name) THEN items ELSE Append(items, e)
  /\ UNCHANGED <<script, moveAfterCopy, targetPath, env, fs, pc, run, cands, tool, stack, cur,
                 result, exitCode, cause, log, hist>>

\* a loop that handles each entry as soon as the enumeration yields it
ArchiveNextItemEarly ==
  /\ pc \in {"collect", "loop"}
  /\ items # <<>>
  /\ cur' = [path |-> ArchiveItemPath(Head(items).name),
             isDirectory |-> Head(items).isDirectory]
  /\ items' = Tail(items)
  /\ pc' = "check"
  /\ UNCHANGED <<script, moveAfterCopy, targetPath, env, fs, run, cands, tool, todo, stack, result,
                 exitCode, cause, log, hist>>

\* for (const item of items): the next item, its paths
ArchiveNextItem ==
  /\ pc \in {"collect", "loop"}
  /\ todo = {}
  /\ items # <<>>
  /\ cur' = [path |-> ArchiveItemPath(Head(items).name),
             isDirectory |-> Head(items).isDirectory]
  /\ items' = Tail(items)
  /\ pc' = "check"
  /\ UNCHANGED <<script, moveAfterCopy, targetPath, env, fs, run, cands, tool, todo, stack, result,
                 exitCode, cause, log, hist>>

\* the loop is over: the script's last statements, exit status 0
ArchiveFinish ==
  /\ pc \in {"collect", "loop"}
  /\ todo = {}
  /\ items = <<>>
  /\ Exit(0, "none")
  /\ UNCHANGED <<script, moveAfterCopy, targetPath, env, fs, run, tool, log, hist>>

\* a loop body whose existence test lacks the continue
ArchiveAfterCheckNoContinue(outputExists) == "transform"

\* if (await exists(outputPath)) { ...; continue; }
ArchiveAfterCheck(outputExists) == IF outputExists THEN "loop" ELSE "transform"

\* a loop body that starts compressItem without awaiting it
ArchiveCheckNoAwait ==
  /\ pc = "check"
  /\ script = "archive"
  /\ pc' = "loop"
  /\ log' = IF Exists(fs, ArchiveOutputPath(cur.path[Len(cur.path)]))
              THEN Logged("skipped", cur.path)
              ELSE Logged("invoked", cur.path)
  /\ UNCHANGED <<script, moveAfterCopy, targetPath, env, fs, run, cands, tool, todo, items, stack,
                 cur, result, exitCode, cause, hist>>

\* the existence test of the loop body; compressItem is called when it fails
ArchiveCheck ==
  /\ pc = "check"
  /\ script = "archive"
  /\ pc' = ArchiveAfterCheck(Exists(fs, ArchiveOutputPath(cur.path[Len(cur.path)])))
  /\ log' = IF pc' = "loop" THEN Logged("skipped", cur.path)
                            ELSE Logged("invoked", cur.path)
  /\ UNCHANGED <<script, moveAfterCopy, targetPath, env, fs, run, cands, tool, todo, items, stack,
                 cur, result, exitCode, cause, hist>>

\* compressItem's return value: output.success
CompressItem(o) == o.success

\* the 7z process ends and compressItem returns
ArchiveCompressReturn ==
  /\ pc = "transform"
  /\ script = "archive"
  /\ \E o \in ArchiverOutcomes :
       /\ fs' = AfterTool(fs, ArchiveOutputPath(cur.path[Len(cur.path)]), o, ArchiveBytes)
       /\ result' = IF CompressItem(o) THEN "ok" ELSE "fail"
       /\ log' = IF CompressItem(o) THEN Logged("succeeded", cur.path)
                                    ELSE Logged("failed", cur.path)
  /\ pc' = "decide"
  /\ UNCHANGED <<script, moveAfterCopy, targetPath, env, run, cands, tool, todo, items, stack, cur,
                 exitCode, cause, hist>>

\* a loop body that deletes the items whose archiving failed
ArchiveShouldDeleteOnFailure(compressSuccess) == compressSuccess # "ok"

\* a loop body that deletes whatever compressItem returned
ArchiveShouldDeleteAlways(compressSuccess) == TRUE

\* if (compressSuccess) deleteItem(...)
ArchiveShouldDelete(compressSuccess) == compressSuccess = "ok"

\* deleteItem: Deno.remove(itemPath, { recursive: isDirectory })
ArchiveDelete ==
  /\ pc = "decide"
  /\ script = "archive"
  /\ ArchiveShouldDelete(result)
  /\ fs' = Remove(fs, cur.path, cur.isDirectory)
  /\ log' = Logged("deleted", cur.path)
  /\ hist' = [hist EXCEPT !.deleted = @ \cup
                 {[src |-> cur.path, target |-> ArchiveOutputPath(cur.path[Len(cur.path)])]}]
  /\ pc' = "loop"
  /\ UNCHANGED <<script, moveAfterCopy, targetPath, env, run, cands, tool, todo, items, stack, cur,
                 result, exitCode, cause>>

\* else: the source is kept
ArchiveKeep ==
  /\ pc = "decide"
  /\ script = "archive"
  /\ ~ArchiveShouldDelete(result)
  /\ pc' = "loop"
  /\ UNCHANGED <<script, moveAfterCopy, targetPath, env, fs, run, cands, tool, todo, items, stack,
                 cur, result, exitCode, cause, log, hist>>

\* ----------------------------------------------------------- transcode
SUPPORTED_EXTENSIONS ==
  {<<"avi">>, <<"mov">>, <<"mts">>, <<"vob">>, <<"mpg">>, <<"mpeg">>, <<"3gp">>, <<"wmv">>}

OUTPUT_EXTENSION == <<"webm">>

CURRENT_DIR == Root

FFmpegPaths ==
  <<"PF/ffmpeg/bin/ffmpeg.exe", "PF86/ffmpeg/bin/ffmpeg.exe", "C:/ffmpeg/bin/ffmpeg.exe">>
    \o (IF env.userProfile
          THEN <<"UP/ffmpeg/bin/ffmpeg.exe", "UP/AppData/Local/ffmpeg/bin/ffmpeg.exe">>
          ELSE <<>>)

\* status.success inside try, catch falls through to the next candidate
FFmpegRuns(path) == Probe(path) = "ok"

\* checkFFmpegAvailability, first probe: the bare command
CheckFFmpegBare ==
  /\ pc = "start"
  /\ script = "transcode"
  /\ IF FFmpegRuns("ffmpeg")
       THEN /\ tool' = "ffmpeg"
            /\ cands' = <<>>
            /\ pc' = "main"
       ELSE /\ tool' = tool
            /\ cands' = FFmpegPaths
            /\ pc' = "probe"
  /\ UNCHANGED <<script, moveAfterCopy, targetPath, env, fs, run, todo, items, stack, cur, result,
                 exitCode, cause, log, hist>>

\* checkFFmpegAvailability, the loop over possiblePaths
CheckFFmpegNext ==
  /\ pc = "probe"
  /\ script = "transcode"
  /\ cands # <<>>
  /\ IF FFmpegRuns(Head(cands))
       THEN /\ tool' = Head(cands)
            /\ cands' = <<>>
            /\ pc' = "main"
       ELSE /\ tool' = tool
            /\ cands' = Tail(cands)
            /\ pc' = "probe"
  /\ UNCHANGED <<script, moveAfterCopy, targetPath, env, fs, run, todo, items, stack, cur, result,
                 exitCode, cause, log, hist>>

\* checkFFmpegAvailability, throw new Error("FFmpeg未安装"): uncaught
CheckFFmpegFail ==
  /\ pc = "probe"
  /\ script = "transcode"
  /\ cands = <<>>
  /\ Exit(1, "ToolNotFound")
  /\ UNCHANGED <<script, moveAfterCopy, targetPath, env, fs, run, tool, log, hist>>

\* main -> scanAndConvertVideos -> scanDirectoryRecursively(CURRENT_DIR)
TranscodeMain ==
  /\ pc = "main"
  /\ script = "transcode"
  /\ cur' = [path |-> CURRENT_DIR, isDirectory |-> TRUE]
  /\ pc' = "open"
  /\ UNCHANGED <<script, moveAfterCopy, targetPath, env, fs, run, cands, tool, todo, items, stack,
                 result, exitCode, cause, log, hist>>

\* a recursion frame: the directory and the entries its readDir has yet to yield
Frame(f, dir) == [dir |-> dir, todo |-> ReadDir(f, dir)]

Top == stack[Len(stack)]

\* an iterator that yields the same entry again and again
YieldedStuck(e) == stack

Yielded(e) == [stack EXCEPT ![Len(stack)].todo = @ \ {e}]

\* scanDirectoryRecursively(dirPath) starts iterating Deno.readDir(dirPath)
ScanOpen ==
  /\ pc = "open"
  /\ script = "transcode"
  /\ stack' = Append(stack, Frame(fs, cur.path))
  /\ cur' = NoItem
  /\ pc' = "walk"
  /\ UNCHANGED <<script, moveAfterCopy, targetPath, env, fs, run, cands, tool, todo, items,
                 result, exitCode, cause, log, hist>>

\* Deno.readDir throws: nothing catches it
ScanOpenError ==
  /\ pc = "open"
  /\ script = "transcode"
  /\ Exit(1, "DirectoryReadError")
  /\ UNCHANGED <<script, moveAfterCopy, targetPath, env, fs, run, tool, log, hist>>

\* the test of the scan for a file entry
TranscodeEligible(fullPath) == GetFileExtension(fullPath) \in SUPPORTED_EXTENSIONS

\* one iteration of the for-await loop of scanDirectoryRecursively
ScanNext ==
  /\ pc = "walk"
  /\ script = "transcode"
  /\ stack # <<>>
  /\ \E e \in Top.todo :
       LET fullPath == Join(Top.dir, e.name) IN
       /\ stack' = Yielded(e)
       /\ IF StartsWithDot(e.name)
            THEN /\ pc' = "walk"
                 /\ cur' = cur
            ELSE IF e.isDirectory
              THEN /\ pc' = "open"
                   /\ cur' = [path |-> fullPath, isDirectory |-> TRUE]
              ELSE IF e.isFile /\ TranscodeEligible(fullPath)
                THEN /\ pc' = "convert"
                     /\ cur' = [path |-> fullPath, isDirectory |-> FALSE]
                ELSE /\ pc' = "walk"
                     /\ cur' = cur
  /\ UNCHANGED <<script, moveAfterCopy, targetPath, env, fs, run, cands, tool, todo, items,
                 result, exitCode, cause, log, hist>>

\* the loop of a subdirectory ends: return to the caller's loop
ScanReturn ==
  /\ pc = "walk"
  /\ script = "transcode"
  /\ Len(stack) > 1
  /\ Top.todo = {}
  /\ stack' = SubSeq(stack, 1, Len(stack) - 1)
  /\ UNCHANGED <<script, moveAfterCopy, targetPath, env, fs, pc, run, cands, tool, todo, items,
                 cur, result, exitCode, cause, log, hist>>

\* the loop of CURRENT_DIR ends: main prints its last line, exit status 0
TranscodeFinish ==
  /\ pc = "walk"
  /\ script = "transcode"
  /\ Len(stack) = 1
  /\ Top.todo = {}
  /\ Exit(0, "none")
  /\ UNCHANGED <<script, moveAfterCopy, targetPath, env, fs, run, tool, log, hist>>

\* inputPath.replace(new RegExp(`\\.${inputExt}$`, "i"), ".webm")
ConvertOutputPath(inputPath) ==
  LET name == inputPath[Len(inputPath)]
      n == Len(name)
      hit == n >= 2 /\ name[n - 1] = Dot
               /\ <<Lower(name[n])>> = GetFileExtension(inputPath)
  IN IF hit
       THEN [inputPath EXCEPT ![Len(inputPath)] =
               SubSeq(name, 1, n - 2) \o <<Dot>> \o OUTPUT_EXTENSION]
       ELSE inputPath

\* an existence test that never finds the output
ConvertFileExistsNever(f, path) == FALSE

\* fileExists: Deno.stat does not throw
ConvertFileExists(f, path) == Exists(f, path)

\* a convertVideoFile that relies on ffmpeg's -y and tests no output
ConvertCheckOverwrite ==
  /\ pc = "convert"
  /\ IF ~TranscodeEligible(cur.path)
       THEN /\ pc' = "walk"
            /\ log' = log
       ELSE /\ pc' = "transform"
            /\ log' = Logged("invoked", cur.path)
  /\ UNCHANGED <<script, moveAfterCopy, targetPath, env, fs, run, cands, tool, todo, items, stack,
                 cur, result, exitCode, cause, hist>>

\* convertVideoFile up to the spawn: extension test, output-exists test
ConvertCheck ==
  /\ pc = "convert"
  /\ IF ~TranscodeEligible(cur.path)
       THEN /\ pc' = "walk"
            /\ log' = log
       ELSE IF ConvertFileExists(fs, ConvertOutputPath(cur.path))
         THEN /\ pc' = "walk"
              /\ log' = Logged("skipped", cur.path)
         ELSE /\ pc' = "transform"
              /\ log' = Logged("invoked", cur.path)
  /\ UNCHANGED <<script, moveAfterCopy, targetPath, env, fs, run, cands, tool, todo, items, stack,
                 cur, result, exitCode, cause, hist>>

\* the ffmpeg process ends with success: on to the verification
ConvertReturn ==
  /\ pc = "transform"
  /\ script = "transcode"
  /\ \E o \in FFmpegOutcomes :
       /\ o.success
       /\ fs' = AfterTool(fs, ConvertOutputPath(cur.path), o, WebmBytes)
  /\ result' = "ok"
  /\ log' = Logged("succeeded", cur.path)
  /\ pc' = "verify"
  /\ UNCHANGED <<script, moveAfterCopy, targetPath, env, run, cands, tool, todo, items, stack, cur,
                 exitCode, cause, hist>>

\* the ffmpeg process ends without success: throw new Error, caught nowhere
ConvertFail ==
  /\ pc = "transform"
  /\ script = "transcode"
  /\ \E o \in FFmpegOutcomes :
       /\ ~o.success
       /\ fs' = AfterTool(fs, ConvertOutputPath(cur.path), o, WebmBytes)
  /\ log' = Logged("failed", cur.path)
  /\ Exit(1, "ItemError")
  /\ UNCHANGED <<script, moveAfterCopy, targetPath, env, run, tool, hist>>

\* a verification that forgets the size test
OutputVerifiedNoSize(f, outputPath) == Exists(f, outputPath)

\* Deno.stat(outputPath) does not throw and outputStat.size is not 0
OutputVerified(f, outputPath) == Exists(f, outputPath) /\ Size(f, outputPath) # 0

\* the verification passes: on to the delete
ConvertVerify ==
  /\ pc = "verify"
  /\ OutputVerified(fs, ConvertOutputPath(cur.path))
  /\ log' = Logged("verified", cur.path)
  /\ pc' = "delete"
  /\ UNCHANGED <<script, moveAfterCopy, targetPath, env, fs, run, cands, tool, todo, items, stack,
                 cur, result, exitCode, cause, hist>>

\* Deno.stat throws NotFound, or throw new Error("输出文件为空"): uncaught
ConvertVerifyFail ==
  /\ pc = "verify"
  /\ ~OutputVerified(fs, ConvertOutputPath(cur.path))
  /\ log' = Logged("failed", cur.path)
  /\ Exit(1, "ItemError")
  /\ UNCHANGED <<script, moveAfterCopy, targetPath, env, fs, run, tool, hist>>

\* await Deno.remove(inputPath)
ConvertDelete ==
  /\ pc = "delete"
  /\ script = "transcode"
  /\ fs' = Remove(fs, cur.path, FALSE)
  /\ log' = Logged("deleted", cur.path)
  /\ hist' = [hist EXCEPT !.deleted = @ \cup
                 {[src |-> cur.path, target |-> ConvertOutputPath(cur.path)]}]
  /\ cur' = NoItem
  /\ result' = "none"
  /\ pc' = "walk"
  /\ UNCHANGED <<script, moveAfterCopy, targetPath, env, run, cands, tool, todo, items, stack,
                 exitCode, cause>>

\* -------------------------------------------------------------- rename
EXTENSIONS == {<<"mp4">>, <<"webm">>, <<"m4v">>}

\* ensureDirectoryExists: Deno.stat, and Deno.mkdir(recursive) when it throws
EnsureDirectoryExists(f, dirPath) ==
  IF Exists(f, dirPath)
    THEN f
    ELSE [q \in (DOMAIN f) \cup {SubSeq(dirPath, 1, k) : k \in 0..Len(dirPath)} |->
            IF q \in DOMAIN f THEN f[q] ELSE [kind |-> "dir", data |-> Empty]]

\* the top-level await ensureDirectoryExists(TARGET_PATH)
RenameEnsureTarget ==
  /\ pc = "start"
  /\ script = "rename"
  /\ fs' = EnsureDirectoryExists(fs, targetPath)
  /\ pc' = "main"
  /\ UNCHANGED <<script, moveAfterCopy, targetPath, env, run, cands, tool, todo, items, stack, cur,
                 result, exitCode, cause, log, hist>>

\* main -> scanAndCopyFiles(SOURCE_PATH, ...)
RenameMain ==
  /\ pc = "main"
  /\ script = "rename"
  /\ cur' = [path |-> SOURCE_PATH, isDirectory |-> TRUE]
  /\ pc' = "open"
  /\ UNCHANGED <<script, moveAfterCopy, targetPath, env, fs, run, cands, tool, todo, items, stack,
                 result, exitCode, cause, log, hist>>

\* scanAndCopyFiles(dirPath) starts iterating Deno.readDir(dirPath)
CopyScanOpen ==
  /\ pc = "open"
  /\ script = "rename"
  /\ Exists(fs, cur.path)
  /\ stack' = Append(stack, Frame(fs, cur.path))
  /\ cur' = NoItem
  /\ pc' = "walk"
  /\ UNCHANGED <<script, moveAfterCopy, targetPath, env, fs, run, cands, tool, todo, items,
                 result, exitCode, cause, log, hist>>

\* Deno.readDir throws (no such directory, or unreadable): nothing catches it
CopyScanOpenError ==
  /\ pc = "open"
  /\ script = "rename"
  /\ Exit(1, "DirectoryReadError")
  /\ UNCHANGED <<script, moveAfterCopy, targetPath, env, fs, run, tool, log, hist>>

\* the test of the scan for a file entry: an extension, and a listed one
RenameEligible(fullPath) ==
  /\ GetFileExtension(fullPath) # <<>>
  /\ GetFileExtension(fullPath) \in EXTENSIONS

\* one iteration of the for-await loop of scanAndCopyFiles
CopyScanNext ==
  /\ pc = "walk"
  /\ script = "rename"
  /\ stack # <<>>
  /\ \E e \in Top.todo :
       LET fullPath == Join(Top.dir, e.name) IN
       /\ stack' = Yielded(e)
       /\ IF StartsWithDot(e.name)
            THEN /\ pc' = "walk"
                 /\ cur' = cur
            ELSE IF e.isDirectory
              THEN /\ pc' = "open"
                   /\ cur' = [path |-> fullPath, isDirectory |-> TRUE]
              ELSE IF e.isFile /\ RenameEligible(fullPath)
                THEN /\ pc' = "copy"
                     /\ cur' = [path |-> fullPath, isDirectory |-> FALSE]
                ELSE /\ pc' = "walk"
                     /\ cur' = cur
  /\ UNCHANGED <<script, moveAfterCopy, targetPath, env, fs, run, cands, tool, todo, items,
                 result, exitCode, cause, log, hist>>

\* the loop of a subdirectory ends: return to the caller's loop
CopyScanReturn ==
  /\ pc = "walk"
  /\ script = "rename"
  /\ Len(stack) > 1
  /\ Top.todo = {}
  /\ stack' = SubSeq(stack, 1, Len(stack) - 1)
  /\ UNCHANGED <<script, moveAfterCopy, targetPath, env, fs, pc, run, cands, tool, todo, items,
                 cur, result, exitCode, cause, log, hist>>

\* the loop of SOURCE_PATH ends: main prints its last lines, exit status 0
RenameFinish ==
  /\ pc = "walk"
  /\ script = "rename"
  /\ Len(stack) = 1
  /\ Top.todo = {}
  /\ Exit(0, "none")
  /\ UNCHANGED <<script, moveAfterCopy, targetPath, env, fs, run, tool, log, hist>>

\* encodeBase58(BLAKE3(content)): one token per content, distinct contents
\* giving distinct tokens (collision resistance)
EncodeBase58Blake3(data) ==
  CASE data = Empty -> "hashE"
    [] data = Bytes1 -> "hash1"
    [] data = Bytes2 -> "hash2"
    [] data = PartialBytes -> "hashP"
    [] OTHER -> "hashX"

CalculateFileHash(f, filePath) == EncodeBase58Blake3(f[filePath].data)

\* extension ? `${hash}.${extension}` : hash
TargetFileName(hash, extension) ==
  IF extension # <<>> THEN <<hash, Dot>> \o extension ELSE <<hash>>

\* copySingleFile steps 1 to 3
CopyTargetPath(f, sourceFile, targetDir) ==
  Join(targetDir, TargetFileName(CalculateFileHash(f, sourceFile), GetFileExtension(sourceFile)))

\* an existence test that never finds the target
FileExistsNever(f, path) == FALSE

\* fileExists: Deno.stat does not throw
FileExists(f, path) == Exists(f, path)

\* copySingleFile steps 1 to 5: skip when the target exists, else make sure
\* of the target directory and call Deno.copyFile
CopyCheck ==
  /\ pc = "copy"
  /\ IF FileExists(fs, CopyTargetPath(fs, cur.path, targetPath))
       THEN /\ pc' = "walk"
            /\ log' = Logged("skipped", cur.path)
            /\ fs' = fs
       ELSE /\ pc' = "transform"
            /\ log' = Logged("invoked", cur.path)
            /\ fs' = EnsureDirectoryExists(fs, targetPath)
  /\ UNCHANGED <<script, moveAfterCopy, targetPath, env, run, cands, tool, todo, items, stack,
                 cur, result, exitCode, cause, hist>>

\* a copy that is always followed by the removal of the source
AfterCopyAlwaysMove(move) == "delete"

\* if (MOVE_AFTER_COPY) { await Deno.remove(sourceFile); }
AfterCopy(move) == IF move THEN "delete" ELSE "walk"

\* the open iterations of Deno.readDir after a file appeared at path p: an
\* iteration over p's directory may or may not yield the new entry
SeesNewFile(st, p) ==
  LET dir == SubSeq(p, 1, Len(p) - 1)
      e == [name |-> p[Len(p)], isDirectory |-> FALSE, isFile |-> TRUE]
  IN {st, [k \in DOMAIN st |->
             IF st[k].dir = dir THEN [st[k] EXCEPT !.todo = @ \cup {e}] ELSE st[k]]}

\* Deno.copyFile returns
CopyFileReturn ==
  /\ pc = "transform"
  /\ script = "rename"
  /\ fs' = WriteFile(fs, CopyTargetPath(fs, cur.path, targetPath), fs[cur.path].data)
  /\ stack' \in SeesNewFile(stack, CopyTargetPath(fs, cur.path, targetPath))
  /\ result' = "ok"
  /\ log' = Logged("succeeded", cur.path)
  /\ pc' = AfterCopy(moveAfterCopy)
  /\ UNCHANGED <<script, moveAfterCopy, targetPath, env, run, cands, tool, todo, items, cur,
                 exitCode, cause, hist>>

\* Deno.copyFile throws, with nothing or a partial file at the target: uncaught
CopyFileFail ==
  /\ pc = "transform"
  /\ script = "rename"
  /\ \E o \in {"none", "partial"} :
       fs' = AfterTool(fs, CopyTargetPath(fs, cur.path, targetPath),
                       Outcome(FALSE, o), fs[cur.path].data)
  /\ log' = Logged("failed", cur.path)
  /\ Exit(1, "ItemError")
  /\ UNCHANGED <<script, moveAfterCopy, targetPath, env, run, tool, hist>>

\* if (moveAfterCopy) await Deno.remove(sourceFile)
CopyDelete ==
  /\ pc = "delete"
  /\ script = "rename"
  /\ fs' = Remove(fs, cur.path, FALSE)
  /\ log' = Logged("deleted", cur.path)
  /\ hist' = [hist EXCEPT !.deleted = @ \cup
                 {[src |-> cur.path, target |-> CopyTargetPath(fs, cur.path, targetPath)]}]
  /\ pc' = "walk"
  /\ UNCHANGED <<script, moveAfterCopy, targetPath, env, run, cands, tool, todo, items, stack,
                 cur, result, exitCode, cause>>

\* ------------------------------------------------------------ next run
\* the script is started again on the tree the previous run left
NextRun ==
  /\ pc = "exit"
  /\ run < MaxRuns
  /\ run' = run + 1
  /\ pc' = "start"
  /\ tool' = "none"
  /\ exitCode' = -1
  /\ cause' = "none"
  /\ log' = EmptyLog
  /\ hist' = [hist EXCEPT !.fsStart = fs, !.prevDone = (cause = "none" /\ log.failed = {})]
  /\ UNCHANGED <<script, moveAfterCopy, targetPath, env, fs, cands, todo, items, stack, cur, result>>

\* the steps of one run
RunStep ==
  \/ Check7zBare
  \/ Check7zNext
  \/ Check7zFail
  \/ ArchiveReadDir
  \/ ArchiveReadDirError
  \/ ArchiveCollect
  \/ ArchiveNextItem
  \/ ArchiveFinish
  \/ ArchiveCheck
  \/ ArchiveCompressReturn
  \/ ArchiveDelete
  \/ ArchiveKeep
  \/ CheckFFmpegBare
  \/ CheckFFmpegNext
  \/ CheckFFmpegFail
  \/ TranscodeMain
  \/ ScanOpen
  \/ ScanOpenError
  \/ ScanNext
  \/ ScanReturn
  \/ TranscodeFinish
  \/ ConvertCheck
  \/ ConvertReturn
  \/ ConvertFail
  \/ ConvertVerify
  \/ ConvertVerifyFail
  \/ ConvertDelete
  \/ RenameEnsureTarget
  \/ RenameMain
  \/ CopyScanOpen
  \/ CopyScanOpenError
  \/ CopyScanNext
  \/ CopyScanReturn
  \/ RenameFinish
  \/ CopyCheck
  \/ CopyFileReturn
  \/ CopyFileFail
  \/ CopyDelete

\* a step of the running script, or the start of the next run
Next == RunStep \/ NextRun

Spec == Init /\ [][Next]_vars

\* ===================================================================
\* Properties
\* ===================================================================
Last(path) == path[Len(path)]

\* the target path the running script derives for the item at path p,
\* read in the filesystem f
TargetOf(f, p) ==
  CASE script = "archive" -> ArchiveOutputPath(Last(p))
    [] script = "transcode" -> ConvertOutputPath(p)
    [] OTHER -> CopyTargetPath(f, p, targetPath)

\* the control points at which an item is in the hands of the loop body
ItemPcs == {"check", "convert", "copy", "transform", "decide", "verify", "delete"}

\* the control points of the existence test of an item's target
CheckPcs == {"check", "convert", "copy"}

\* the run ended through one of the fatal setup errors
FatalSetup == cause \in {"ToolNotFound", "DirectoryReadError"}

\* C1: whenever a script has deleted an item's source, an artifact exists at
\* the item's target path and is not empty.
C1_NoDataLoss ==
  \A d \in hist.deleted : Exists(fs, d.target) /\ Size(fs, d.target) > 0

\* C2: an item whose transform failed keeps its source, and the failure does
\* not end the run: the items after it are still processed.
C2_FailureIsolated ==
  /\ \A i \in log.failed : Exists(fs, i) /\ fs[i] = hist.fsStart[i]
  /\ ~(pc = "exit" /\ cause = "ItemError")

\* C3: a run that follows a completed run without failures, and itself runs
\* to completion, has invoked no transform, deleted nothing and left the
\* filesystem as it found it.
C3_SecondRunChangesNothing ==
  (pc = "exit" /\ cause = "none" /\ hist.prevDone) =>
     (fs = hist.fsStart /\ log.invoked = {} /\ log.deleted = {})

\* C4: a source is deleted only after its own transform has returned success
\* in this run (for transcode: and the size check has passed), never for an
\* item whose transform failed, and it is still there while its transform or
\* verification is under way.
C4_DeleteAfterVerify ==
  /\ \A i \in log.deleted :
       /\ i \in log.succeeded
       /\ i \notin log.failed
       /\ script = "transcode" => i \in log.verified
  /\ pc \in ItemPcs => Exists(fs, cur.path)
  /\ pc = "delete" =>
       /\ cur.path \in log.succeeded
       /\ script = "transcode" => cur.path \in log.verified

C4_Witness == log.deleted # {} /\ log.failed # {}

\* the entry p is hidden, or excluded by the extension policy of the script
HiddenName(p) == StartsWithDot(Last(p))

PolicyExcluded(p) ==
  CASE script = "archive" -> EndsWithTs(Last(p))
    [] script = "transcode" -> GetFileExtension(p) \notin SUPPORTED_EXTENSIONS
    [] OTHER -> GetFileExtension(p) = <<>> \/ GetFileExtension(p) \notin EXTENSIONS

UnderHidden(p) == \E k \in 1..(Len(p) - 1) : StartsWithDot(p[k])

Untouched(p) ==
  /\ Exists(fs, p)
  /\ fs[p] = hist.fsStart[p]
  /\ p \notin log.invoked
  /\ p \notin log.deleted

NoHiddenVisit ==
  /\ \A k \in 1..Len(stack) : ~\E j \in 1..Len(stack[k].dir) : StartsWithDot(stack[k].dir[j])
  /\ pc \in ItemPcs => ~(HiddenName(cur.path) \/ PolicyExcluded(cur.path) \/ UnderHidden(cur.path))

\* C5 as stated: in every script, every entry that is hidden or excluded by
\* the extension policy, and every descendant of a hidden directory, is
\* never transformed, never deleted and never visited.
C5_ExclusionEverywhere ==
  /\ \A p \in (DOMAIN hist.fsStart) \ {Root} :
       (HiddenName(p) \/ PolicyExcluded(p) \/ UnderHidden(p)) => Untouched(p)
  /\ NoHiddenVisit

\* the entries the archive script decides on: the direct children of the root
C5_Covered(p) == script = "archive" => Len(p) = 1

\* C5 amended: the same, where in the archive script only the direct
\* children of the root are covered (a nested entry goes with its top-level
\* directory, hidden or not).
C5_Exclusion ==
  /\ \A p \in (DOMAIN hist.fsStart) \ {Root} :
       (C5_Covered(p) /\ (HiddenName(p) \/ PolicyExcluded(p) \/ UnderHidden(p)))
          => Untouched(p)
  /\ NoHiddenVisit

C5_Witness ==
  /\ pc = "exit"
  /\ log.deleted # {}
  /\ \E p \in (DOMAIN hist.fsStart) \ {Root} : C5_Covered(p) /\ HiddenName(p)
  /\ \E p \in (DOMAIN hist.fsStart) \ {Root} : C5_Covered(p) /\ ~HiddenName(p) /\ PolicyExcluded(p)

\* the sources of the rename script this run has taken through the
\* existence test and, where it came to that, the copy
Processed == log.succeeded \cup log.skipped

SameContent(p, q) == hist.fsStart[p].data = hist.fsStart[q].data

StartTarget(p) == CopyTargetPath(hist.fsStart, p, targetPath)

\* C6 as stated: any two distinct processed sources with identical content
\* have the same target and are not both copied.
C6_DedupAnyExtension ==
  script = "rename" =>
    \A p, q \in Processed :
      (p # q /\ SameContent(p, q)) =>
         /\ StartTarget(p) = StartTarget(q)
         /\ ~(p \in log.succeeded /\ q \in log.succeeded)

\* C6 amended: two distinct processed sources with identical content and the
\* same lower-cased extension have the same target; one of them at least is
\* skipped, exactly one is copied when the target was absent at the start of
\* the run, and a target present at the start of the run is left as it was.
C6_Dedup ==
  script = "rename" =>
    \A p, q \in Processed :
      (p # q /\ SameContent(p, q) /\ GetFileExtension(p) = GetFileExtension(q)) =>
         /\ StartTarget(p) = StartTarget(q)
         /\ ~(p \in log.succeeded /\ q \in log.succeeded)
         /\ p \in log.skipped \/ q \in log.skipped
         /\ ~Exists(hist.fsStart, StartTarget(p)) =>
               (p \in log.succeeded \/ q \in log.succeeded)
         /\ Exists(hist.fsStart, StartTarget(p)) =>
               fs[StartTarget(p)] = hist.fsStart[StartTarget(p)]

C6_Witness ==
  /\ script = "rename"
  /\ \E p \in log.succeeded, q \in log.skipped :
       /\ p # q
       /\ SameContent(p, q)
       /\ Last(p) # Last(q)
       /\ Exists(fs, StartTarget(q))

Docs == << <<"docs">> >>

DocsArchive == << <<"docs", ".", "7z">> >>

\* C7: a run of the archive script that starts with docs/ and docs.7z in the
\* root never invokes the archiver, leaves docs/ and what it holds as they
\* were, and ends with docs/ skipped.
C7_DocsSkipped ==
  (script = "archive" /\ Exists(hist.fsStart, Docs) /\ Exists(hist.fsStart, DocsArchive)
     /\ pc \notin {"start", "probe", "enum"}) =>
       /\ log.invoked = {}
       /\ \A p \in DOMAIN hist.fsStart : IsPrefix(Docs, p) => Exists(fs, p) /\ fs[p] = hist.fsStart[p]
       /\ (pc = "exit" /\ cause = "none") => Docs \in log.skipped

\* a step taken at the existence test of an item whose target exists
C8_SkipStep ==
  (pc \in CheckPcs /\ Exists(fs, TargetOf(fs, cur.path))) =>
     /\ fs' = fs
     /\ pc' \in {"loop", "walk"}
     /\ log'.invoked = log.invoked
     /\ log'.deleted = log.deleted
     /\ cur.path \in log'.skipped

\* the skipped items of the run
C8_SkipInv ==
  \A i \in log.skipped : i \notin log.invoked /\ i \notin log.deleted /\ Exists(fs, i)

\* C8: a step taken at the existence test of an item whose target exists
\* changes nothing in the filesystem, invokes no transform, deletes nothing
\* and goes on to the next item; and no skipped item is transformed or
\* deleted in the run, move mode or not.
C8_SkipUnchanged == [](C8_SkipInv) /\ [][C8_SkipStep]_vars

C8_Witness ==
  /\ script = "rename"
  /\ moveAfterCopy
  /\ log.skipped # {}
  /\ log.deleted # {}
  /\ pc = "exit"

\* C9: a run ends with a non-zero exit status only through a fatal setup
\* error; a run that failed on items alone ends with exit status 0.
C9_ExitStatus ==
  (pc = "exit" /\ ~FatalSetup) => exitCode = 0

\* C10: in the transcode script, an item whose transcoder exited with status
\* 0 while the output is missing or empty is, once the verification has
\* run, a failed item whose source is still there; and the delete is reached
\* only with an output that exists and is not empty.
C10_EmptyOutputFails ==
  script = "transcode" =>
    /\ \A i \in log.succeeded :
         (pc # "verify" /\ ~(Exists(fs, ConvertOutputPath(i)) /\ Size(fs, ConvertOutputPath(i)) > 0)) =>
            /\ i \in log.failed
            /\ i \notin log.deleted
            /\ Exists(fs, i)
            /\ fs[i] = hist.fsStart[i]
    /\ pc = "delete" =>
         Exists(fs, ConvertOutputPath(cur.path)) /\ Size(fs, ConvertOutputPath(cur.path)) > 0

C10_Witness ==
  /\ script = "transcode"
  /\ \E i \in log.succeeded \cap log.failed :
       /\ Exists(fs, ConvertOutputPath(i))
       /\ Size(fs, ConvertOutputPath(i)) = 0
       /\ Exists(fs, i)

\* ------------------------------------------------------------------ C11
ToolScripts == {"archive", "transcode"}

ResolvingPcs == {"start", "probe"}

\* C11: in the archive and transcode scripts no directory is enumerated, no
\* item is processed and nothing in the filesystem changes in a run that has
\* not resolved its tool; a run whose every probe failed ends with an error
\* status, the filesystem and the run's history being those of its start.
C11_ToolNotFoundFatal ==
  script \in ToolScripts =>
    /\ tool = "none" =>
         /\ pc \in ResolvingPcs \cup {"exit"}
         /\ pc = "exit" => cause = "ToolNotFound"
         /\ fs = hist.fsStart
         /\ log = EmptyLog
         /\ todo = {} /\ items = <<>> /\ stack = <<>> /\ cur = NoItem
    /\ cause = "ToolNotFound" => (tool = "none" /\ exitCode = 1)
    /\ pc \notin ResolvingPcs \cup {"exit"} => Probe(tool) = "ok"

C11_Witness ==
  /\ script \in ToolScripts
  /\ pc = "exit"
  /\ cause = "ToolNotFound"
  /\ \E p \in DOMAIN fs : Len(p) = 1 /\ ~StartsWithDot(Last(p)) /\ ~EndsWithTs(Last(p))

\* ------------------------------------------------------------------ C12
\* the items whose transform has been started and has not returned
InFlight == log.invoked \ (log.succeeded \cup log.failed)

Touched == log.invoked \cup log.skipped

\* every step the script takes for item i is behind it
FinishedItem(i) ==
  \/ i \in log.skipped \cup log.failed
  \/ /\ i \in log.succeeded
     /\ script = "transcode" => i \in log.verified
     /\ (script # "rename" \/ moveAfterCopy) => i \in log.deleted

C12_Inv ==
  /\ Cardinality(InFlight) <= 1
  /\ InFlight # {} => (pc = "transform" /\ InFlight = {cur.path})
  /\ \A i \in Touched : i = cur.path \/ FinishedItem(i)
  /\ pc \notin ItemPcs => \A i \in Touched : FinishedItem(i)
  /\ pc \in CheckPcs => cur.path \notin Touched

\* the archive loop takes the collected items from the front
C12_OrderStep ==
  (script = "archive" /\ pc' = "check") =>
     /\ items # <<>>
     /\ cur'.path = ArchiveItemPath(Head(items).name)
     /\ items' = Tail(items)

\* C12: at most one transform is in flight, and it is the current item's;
\* when the existence test of an item starts, every step of every item
\* handled before it in the run (test, transform, verification, delete) is
\* over; the archive loop handles the items in the order they were collected.
C12_Sequential == [](C12_Inv) /\ [][C12_OrderStep]_vars

C12_Witness ==
  /\ pc \in CheckPcs
  /\ log.deleted # {}
  /\ log.skipped # {}

\* ------------------------------------------------------------------ C13
\* the files of the target directory
TargetFiles ==
  {p \in DOMAIN fs : IsPrefix(targetPath, p) /\ p # targetPath /\ fs[p].kind = "file"}

\* C13: in the rename script no final target path ever holds a partially
\* copied file: every file of the target directory holds the whole content
\* its name is the hash of, also after a copy that failed.
C13_NoPartialTarget ==
  script = "rename" =>
    \A p \in TargetFiles : Head(Last(p)) = EncodeBase58Blake3(fs[p].data)

\* ------------------------------------------------------------------ C14
\* the entries the run has removed
Gone == (DOMAIN hist.fsStart) \ (DOMAIN fs)

\* C14: in the rename script a run modifies no entry that was there at its
\* start and creates entries only at or under the target directory; with
\* move-after-copy disabled it deletes nothing, and with it enabled it
\* deletes only source files whose copy completed in the same run.
C14_CopyPreservesSource ==
  script = "rename" =>
    /\ \A p \in (DOMAIN fs) \ (DOMAIN hist.fsStart) : IsPrefix(targetPath, p)
    /\ \A p \in (DOMAIN fs) \cap (DOMAIN hist.fsStart) : fs[p] = hist.fsStart[p]
    /\ ~moveAfterCopy => Gone = {}
    /\ moveAfterCopy =>
         \A p \in Gone : /\ p \in log.succeeded
                         /\ hist.fsStart[p].kind = "file"
                         /\ IsPrefix(SOURCE_PATH, p)

C14_Witness ==
  /\ script = "rename"
  /\ ~moveAfterCopy
  /\ pc = "exit"
  /\ log.succeeded # {}
  /\ \E p \in DOMAIN fs : p \notin DOMAIN hist.fsStart /\ fs[p].kind = "file"

\* ------------------------------------------------------------------ C15
TopAncestor(p) == <<p[1]>>

\* C15: in the archive script the existence test, the archiver and the
\* delete are applied to direct children of the root only; an entry nested
\* deeper is never changed or created, and it is gone only when its
\* top-level ancestor is a directory whose archiving returned success and
\* that was then deleted (recursively) in the same run.
C15_TopLevelOnly ==
  script = "archive" =>
    /\ \A i \in log.invoked \cup log.skipped \cup log.deleted : Len(i) = 1
    /\ pc \in ItemPcs => Len(cur.path) = 1
    /\ \A p \in (DOMAIN fs) \ (DOMAIN hist.fsStart) : Len(p) = 1
    /\ \A p \in (DOMAIN fs) \cap (DOMAIN hist.fsStart) : Len(p) > 1 => fs[p] = hist.fsStart[p]
    /\ \A p \in Gone :
         Len(p) > 1 =>
           /\ hist.fsStart[TopAncestor(p)].kind = "dir"
           /\ TopAncestor(p) \in log.succeeded
           /\ TopAncestor(p) \in log.deleted
           /\ TopAncestor(p) \in Gone

C15_Witness ==
  /\ script = "archive"
  /\ \E p \in Gone : Len(p) > 1 /\ TopAncestor(p) \in log.deleted
  /\ \E p \in DOMAIN fs : Len(p) > 1

\* ------------------------------------------------------------------ C16
\* the candidates in the order of priority: the bare command, the
\* well-known paths as listed, the user-profile paths
Bare(s) == IF s = "archive" THEN "7z" ELSE "ffmpeg"

WellKnown(s) ==
  IF s = "archive"
    THEN <<"PF/7-Zip/7z.exe", "PF86/7-Zip/7z.exe", "C:/7-Zip/7z.exe">>
    ELSE <<"PF/ffmpeg/bin/ffmpeg.exe", "PF86/ffmpeg/bin/ffmpeg.exe",
           "C:/ffmpeg/bin/ffmpeg.exe">>

UserProfilePaths(s) ==
  IF s = "archive"
    THEN <<"UP/AppData/Local/Programs/7-Zip/7z.exe", "UP/7-Zip/7z.exe">>
    ELSE <<"UP/ffmpeg/bin/ffmpeg.exe", "UP/AppData/Local/ffmpeg/bin/ffmpeg.exe">>

Range(q) == {q[k] : k \in 1..Len(q)}

Candidates(s) == {Bare(s)} \cup Range(WellKnown(s)) \cup Range(UserProfilePaths(s))

Priority(s) ==
  <<Bare(s)>> \o WellKnown(s) \o (IF env.userProfile THEN UserProfilePaths(s) ELSE <<>>)

FirstWorking(q) ==
  IF \E k \in 1..Len(q) : Probe(q[k]) = "ok"
    THEN q[CHOOSE k \in 1..Len(q) :
             Probe(q[k]) = "ok" /\ \A j \in 1..(k - 1) : Probe(q[j]) # "ok"]
    ELSE "none"

\* every machine: each candidate's probe exits 0, exits non-zero or throws,
\* with and without USERPROFILE
AllMachines(s) ==
  {Machine(w, t, u) : w \in SUBSET Candidates(s), t \in SUBSET Candidates(s), u \in BOOLEAN}

InitResolve ==
  /\ script \in ToolScripts
  /\ moveAfterCopy = FALSE
  /\ targetPath = TARGET_PATH
  /\ env \in {m \in AllMachines(script) : m.works \cap m.throws = {}}
  /\ fs = MkFs({})
  /\ pc = "start"
  /\ run = 1
  /\ cands = <<>>
  /\ tool = "none"
  /\ todo = {}
  /\ items = <<>>
  /\ stack = <<>>
  /\ cur = NoItem
  /\ result = "none"
  /\ exitCode = -1
  /\ cause = "none"
  /\ log = EmptyLog
  /\ hist = [fsStart |-> fs, prevDone |-> FALSE, deleted |-> {}]

NextResolve ==
  \/ Check7zBare
  \/ Check7zNext
  \/ Check7zFail
  \/ CheckFFmpegBare
  \/ CheckFFmpegNext
  \/ CheckFFmpegFail

\* tool resolution alone, on every machine
SpecResolve == InitResolve /\ [][NextResolve]_vars

Resolved == pc \in {"enum", "main"}

\* C16: tool resolution returns the first candidate, in the order bare
\* command, well-known paths as listed, user-profile paths (these only with
\* the home hint set), whose probe exits with status 0; a probe that throws
\* or exits non-zero is passed over; the resolution fails exactly when no
\* candidate's probe succeeds.
C16_PriorityOrder ==
  /\ Resolved => (tool # "none" /\ tool = FirstWorking(Priority(script)))
  /\ pc = "exit" => (cause = "ToolNotFound" /\ FirstWorking(Priority(script)) = "none")
  /\ pc = "probe" =>
       \E k \in 1..Len(Priority(script)) :
          /\ cands = SubSeq(Priority(script), k + 1, Len(Priority(script)))
          /\ \A j \in 1..k : Probe(Priority(script)[j]) # "ok"

C16_Witness ==
  /\ script = "archive"
  /\ Resolved
  /\ tool = "UP/7-Zip/7z.exe"
  /\ Probe("7z") = "throw"
  /\ Probe("PF/7-Zip/7z.exe") = "nonzero"
  /\ Probe("C:/7-Zip/7z.exe") = "throw"

\* ------------------------------------------------------------------ C17
\* a configuration whose target directory lies inside the source tree
NestedTargetPath == SOURCE_PATH \o TARGET_PATH

\* the source trees of the rename script, and what an interrupted earlier
\* run left in the nested target directory
NestedSeeds ==
  RenameSeeds \cup
    {{Node(NestedTargetPath \o << <<"hash1", ".", "mp4">> >>, "file", PartialBytes)}}

InitNested ==
  /\ script = "rename"
  /\ moveAfterCopy \in BOOLEAN
  /\ targetPath = NestedTargetPath
  /\ env = NoMachine
  /\ fs \in {MkFs(UNION S) : S \in {T \in SUBSET NestedSeeds : Cardinality(T) <= MaxSeeds}}
  /\ pc = "start"
  /\ run = 1
  /\ cands = <<>>
  /\ tool = "none"
  /\ todo = {}
  /\ items = <<>>
  /\ stack = <<>>
  /\ cur = NoItem
  /\ result = "none"
  /\ exitCode = -1
  /\ cause = "none"
  /\ log = EmptyLog
  /\ hist = [fsStart |-> fs, prevDone |-> FALSE, deleted |-> {}]

\* one run of a script from any of the trees, every external call
\* returning: a run that can take a step takes one
SpecLive == (Init \/ InitNested) /\ [][RunStep]_vars /\ WF_vars(RunStep)

\* the step that starts a transform starts it for an item that has had none
\* in this run
C17_AttemptStep ==
  (pc' = "transform" /\ pc # "transform") =>
     /\ cur.path \notin log.invoked
     /\ cur.path \in log'.invoked

\* C17: every run ends, finished or aborted, and within a run no item is
\* given a second transform attempt; for the rename script also when the
\* target directory lies inside the source tree and the files the run
\* creates are yielded by the walk.
C17_RunsToCompletion == ((pc = "start") ~> (pc = "exit")) /\ [][C17_AttemptStep]_vars

\* a file created by the run inside the walked tree was yielded and handled
C17_Witness ==
  /\ script = "rename"
  /\ targetPath = NestedTargetPath
  /\ pc = "exit"
  /\ cause = "none"
  /\ \E i \in log.skipped : i \notin DOMAIN hist.fsStart /\ IsPrefix(targetPath, i)
  /\ \E j \in log.succeeded : IsPrefix(targetPath, j)

\* ------------------------------------------------------------------ C18
\* the transform of src is running or being verified
InProgress(src) == pc \in {"transform", "verify", "delete"} /\ cur.path = src

\* src is an eligible source whose output path is taken, the leftover of a
\* failed attempt included
Blocked(src) ==
  /\ script = "transcode"
  /\ Exists(fs, src)
  /\ fs[src].kind = "file"
  /\ TranscodeEligible(src)
  /\ Exists(fs, ConvertOutputPath(src))
  /\ ~InProgress(src)

C18_Step ==
  \A src \in DOMAIN fs :
    Blocked(src) =>
      /\ Blocked(src)'
      /\ fs'[src] = fs[src]
      /\ fs'[ConvertOutputPath(src)] = fs[ConvertOutputPath(src)]
      /\ src \in log'.invoked => src \in log.invoked
      /\ src \in log'.deleted => src \in log.deleted

\* a source the walk reaches whose output was there when the run started
BlockedAtStart(src) ==
  /\ script = "transcode"
  /\ hist.fsStart[src].kind = "file"
  /\ TranscodeEligible(src)
  /\ ConvertOutputPath(src) \in DOMAIN hist.fsStart
  /\ ~HiddenName(src)
  /\ ~UnderHidden(src)

C18_Inv ==
  \A src \in DOMAIN hist.fsStart :
    BlockedAtStart(src) =>
      /\ src \notin log.invoked
      /\ src \notin log.deleted
      /\ (pc = "exit" /\ cause = "none") => src \in log.skipped

\* C18: in the transcode script, once a file is at the output path of a
\* source that is not being transcoded (the zero-length or partial leftover
\* of a failed attempt included), it stays: no step changes the output or
\* the source, starts the transcoder on the source or deletes it, and every
\* later run that walks the tree to its end skips the source.
C18_LeftoverBlocks == [](C18_Inv) /\ [][C18_Step]_vars

C18_Witness ==
  /\ script = "transcode"
  /\ run > 1
  /\ pc = "exit"
  /\ \E src \in log.skipped :
       /\ Exists(fs, src)
       /\ fs[ConvertOutputPath(src)].data \in {Empty, PartialBytes}
       /\ hist.fsStart[ConvertOutputPath(src)] = fs[ConvertOutputPath(src)]

\* ------------------------------------------------------------------ C19
\* the sources still there whose output path is the artifact of d
Colliding(d) ==
  {p \in DOMAIN fs :
     /\ fs[p].kind = "file"
     /\ TranscodeEligible(p)
     /\ ConvertOutputPath(p) = d.target}

\* C19: in the transcode script, of the sources that derive the same
\* output path at most one is ever transcoded and deleted, over all runs;
\* its artifact stays, and a source colliding with it is left in place,
\* with no transcoder run on it, and is skipped by every run that reaches it.
C19_CollidingTargets ==
  script = "transcode" =>
    \A d \in hist.deleted :
      /\ \A e \in hist.deleted : e.target = d.target => e = d
      /\ Exists(fs, d.target)
      /\ fs[d.target].data = WebmBytes
      /\ \A p \in Colliding(d) :
           /\ p \notin log.invoked
           /\ p \notin log.deleted
           /\ (pc = "exit" /\ cause = "none" /\ ~HiddenName(p) /\ ~UnderHidden(p))
                 => p \in log.skipped

C19_Witness ==
  /\ script = "transcode"
  /\ pc = "exit"
  /\ \E d \in hist.deleted :
       /\ Last(d.src) \in {<<"a", ".", "mov">>, <<"a", ".", "avi">>}
       /\ Colliding(d) \cap log.skipped # {}

\* ------------------------------------------------------------------ C20
\* the top-level entries at the start of the run that are neither hidden
\* nor .ts
Snapshot ==
  {p \in DOMAIN hist.fsStart : Len(p) = 1 /\ ~StartsWithDot(Last(p)) /\ ~EndsWithTs(Last(p))}

\* the collected items still waiting for their turn
Pending == {ArchiveItemPath(items[k].name) : k \in 1..Len(items)}

ArchiveLoopPcs == {"loop", "check", "transform", "decide"}

\* C20: in the archive script the items handled in a run are entries of the
\* snapshot taken from the root at the start, all of them handled when the
\* run completes; the enumeration is over before the first item is handled;
\* and an entry created during the run (an archive) is never an item of it.
C20_Snapshot ==
  script = "archive" =>
    /\ Touched \cup log.deleted \subseteq Snapshot
    /\ (pc = "exit" /\ cause = "none") => Touched = Snapshot
    /\ pc \in ArchiveLoopPcs =>
         /\ todo = {}
         /\ Snapshot = Touched \cup Pending \cup (IF pc = "check" THEN {cur.path} ELSE {})
    /\ \A p \in (DOMAIN fs) \ (DOMAIN hist.fsStart) :
         /\ p \notin Touched \cup log.deleted \cup Pending
         /\ pc \in ItemPcs => cur.path # p

C20_Witness ==
  /\ script = "archive"
  /\ pc = "exit"
  /\ cause = "none"
  /\ \E p \in (DOMAIN fs) \ (DOMAIN hist.fsStart) : fs[p].data = ArchiveBytes
  /\ \E p \in DOMAIN hist.fsStart : Len(p) = 1 /\ p \notin Snapshot
  /\ Cardinality(log.invoked) > 1
====
